---- MODULE Spec2Model ----
(***************************************************************************)
(* Model of the Real-ESRGAN upscaling service.                             *)
(*                                                                         *)
(* Three orchestrator modules exist in the repository; one of them is      *)
(* deployed in a process:                                                  *)
(*   "simple"   app/upscaler_simple.py behind app/main.py (the served API) *)
(*   "upscaler" app/upscaler.py        (accelerator process only)          *)
(*   "hybrid"   app/upscaler_hybrid.py (accelerator process or inference)  *)
(* Jobs run as coroutines on one event loop: the code between two awaits   *)
(* is one atomic action, and child processes and worker threads advance    *)
(* through actions of their own.                                           *)
(***************************************************************************)
EXTENDS Integers, Sequences, FiniteSets, TLC

VARIABLES
    deployed,             \* which orchestrator module this process runs
    request,              \* the request the observed client (slot 1) submits
    backends,             \* upscaler_simple: self.backends, the 'available' flags
    active_backend,       \* upscaler_simple: self.active_backend
    use_python_version,   \* upscaler_hybrid: self.use_python_version
    python_available,     \* upscaler_hybrid: self.python_available
    python_upscaler,      \* upscaler_hybrid: self.python_upscaler (cached handle)
    job,                  \* per coroutine slot: the job in flight and its locals
    files,                \* the files on disk: path -> image size, or NoFile
    effects,              \* per coroutine slot: what the job has done so far
    built,                \* the model variants built since process start
    delivered             \* the outcome the latest step delivered to a caller

vars == <<deployed, request, backends, active_backend, use_python_version,
          python_available, python_upscaler, job, files, effects,
          built, delivered>>

-----------------------------------------------------------------------------
(* Bounds *)

NumSlots == 2            \* coroutines that can be in flight together

Slots == 1..NumSlots

-----------------------------------------------------------------------------
(* Strings that the code inspects are sequences of characters *)

S_anime == <<"a","n","i","m","e">>
S_x4plus == <<"r","e","a","l","e","s","r","g","a","n","-","x","4","p","l","u","s">>
S_x4plus_anime == S_x4plus \o <<"-">> \o S_anime
S_animevideov3 == <<"r","e","a","l","e","s","r","-">> \o S_anime \o <<"v","i","d","e","o","v","3">>
S_animevideov3_x4 == S_animevideov3 \o <<"-","x","4">>
S_realesrnet == <<"r","e","a","l","e","s","r","n","e","t","-","x","4","p","l","u","s">>
S_Anime == <<"A","n","i","m","e">>
S_None == <<"N","o","n","e">>

\* a model hint: Python None or a str
NoneHint == [isNone |-> TRUE, text |-> <<>>]
Str(s) == [isNone |-> FALSE, text |-> s]

ModelHints == {NoneHint, Str(S_x4plus), Str(S_x4plus_anime), Str(S_Anime)}

Scales == {2, 4, 8}

\* (width, height) of the images submitted
DimPairs == {<<100, 100>>, <<5, 7>>, <<1, 1>>}

\* what a client can send as image data: an image of some size, an image of
\* more than 2 MB, or bytes that are no image
ImagePayloads == {[image |-> TRUE, dim |-> d, large |-> FALSE] : d \in DimPairs}

ClientPayloads ==
    ImagePayloads \cup {[image |-> TRUE, dim |-> <<100, 100>>, large |-> TRUE],
                        [image |-> FALSE, dim |-> <<0, 0>>, large |-> FALSE]}

OutShapes == {"png", "noext"}

\* Slot 1 carries the jobs of the observed client, who submits `request`;
\* the other slots carry concurrent load: 4x jobs on a 100x100 image.
ScalesFor(j) == IF j = 1 THEN {request.scale} ELSE {4}
HintsFor(j) == IF j = 1 THEN {request.model} ELSE {Str(S_x4plus)}
PayloadsFor(j) ==
    IF j = 1 THEN {request.payload}
    ELSE {[image |-> TRUE, dim |-> <<100, 100>>, large |-> FALSE]}
ShapesFor(j) == IF j = 1 THEN {request.shape} ELSE {"png"}

NoFile == <<>>

-----------------------------------------------------------------------------
(* str.lower(), str(x) and the `in` operator on strings *)

Lower(c) ==
    CASE c = "A" -> "a" [] c = "N" -> "n" [] c = "I" -> "i"
      [] c = "M" -> "m" [] c = "E" -> "e" [] OTHER -> c

lower(s) == [i \in 1..Len(s) |-> Lower(s[i])]

str(m) == IF m.isNone THEN S_None ELSE m.text

Contains(s, sub) ==
    \E i \in 0..(Len(s) - Len(sub)) :
        \A k \in 1..Len(sub) : s[i + k] = sub[k]

-----------------------------------------------------------------------------
(* upscaler_simple: probing and selection *)

BackendKeys == {"realesrgan", "basicsr", "pil", "ncnn"}

\* the registry built by the probes; each import succeeds or raises ImportError
_init_backends(import_realesrgan, import_torch, import_pil, bin) ==
    [realesrgan |-> [available |-> import_realesrgan],
     basicsr    |-> [available |-> import_torch],
     pil        |-> [available |-> import_pil],
     ncnn       |-> [available |-> bin]]

_select_backend_pil_first(b) ==
    IF b["realesrgan"].available THEN "realesrgan"
    ELSE IF b["pil"].available THEN "pil"
    ELSE IF b["ncnn"].available THEN "ncnn"
    ELSE "none"

_select_backend_unprobed(b) ==
    IF b["realesrgan"].available THEN "realesrgan"
    ELSE IF b["ncnn"].available THEN "ncnn"
    ELSE "pil"

_select_backend(b) ==
    IF b["realesrgan"].available THEN "realesrgan"
    ELSE IF b["ncnn"].available THEN "ncnn"
    ELSE IF b["pil"].available THEN "pil"
    ELSE "none"

-----------------------------------------------------------------------------
(* In-process inference strategy: the worker's process() function *)

Raised == [ok |-> FALSE, dim |-> <<0, 0>>]
Image(w, h) == [ok |-> TRUE, dim |-> <<w, h>>]

NativeScale == 4

\* RealESRGANer.enhance(img, outscale): one native pass of the network, then,
\* when outscale differs from the network scale, a resize of the result to
\* (int(w_input * outscale), int(h_input * outscale)); outscale is num/den.
\* cv2.resize raises on an empty target size.
enhance(dim, num, den) ==
    LET native == <<dim[1] * NativeScale, dim[2] * NativeScale>>
    IN  IF num = NativeScale * den THEN Image(native[1], native[2])
        ELSE LET w == (dim[1] * num) \div den
                 h == (dim[2] * num) \div den
             IN  IF w = 0 \/ h = 0 THEN Raised ELSE Image(w, h)

\* the size written by process(): enhance(img, outscale=scale/4), then the
\* scale-specific PIL resize, then cv2.imwrite
process(dim, scale) ==
    LET output == enhance(dim, scale, 4)
    IN  IF ~output.ok THEN Raised
        ELSE IF scale # 4
        THEN LET new_size ==
                    IF scale = 2 THEN <<output.dim[1] \div 2, output.dim[2] \div 2>>
                    ELSE IF scale = 8 THEN <<output.dim[1] * 2, output.dim[2] * 2>>
                    ELSE output.dim
             IN  IF new_size[1] = 0 \/ new_size[2] = 0 THEN Raised
                 ELSE Image(new_size[1], new_size[2])
        ELSE output

Variants == {"RealESRGAN_x4plus", "RealESRGAN_x4plus_anime_6B"}

\* model variant chosen from the hint: "anime" in str(model).lower()
Variant(text) ==
    IF Contains(lower(text), S_anime) THEN "RealESRGAN_x4plus_anime_6B"
    ELSE "RealESRGAN_x4plus"

-----------------------------------------------------------------------------
(* Software-resize strategy: the worker's process() function *)

\* a mutation of the step: the whole remaining factor in one pass
PilStep_uncapped(current_scale, scale) == scale

\* step_scale = min(2, scale / current_scale), given as the value of
\* current_scale * step_scale (step_scale is that value over current_scale)
PilStep(current_scale, scale) ==
    IF 2 * current_scale <= scale THEN 2 * current_scale ELSE scale

RECURSIVE PilLoop(_, _, _)
\* while current_scale < scale: resize by min(2, scale/current_scale), sharpen
PilLoop(dim, current_scale, scale) ==
    IF current_scale < scale
    THEN LET num == PilStep(current_scale, scale)
             \* step_scale = num / current_scale
             new_w == (dim[1] * num) \div current_scale
             new_h == (dim[2] * num) \div current_scale
         IN  PilLoop(<<new_w, new_h>>, num, scale)
    ELSE dim

RECURSIVE PilPasses(_, _, _)
\* what the loop does to current_img, in order: each resize with its
\* step_scale num/den, each UnsharpMask filter
PilPasses(dim, current_scale, scale) ==
    IF current_scale < scale
    THEN LET num == PilStep(current_scale, scale)
             new_w == (dim[1] * num) \div current_scale
             new_h == (dim[2] * num) \div current_scale
         IN  <<[op |-> "resize", num |-> num, den |-> current_scale],
               [op |-> "filter", num |-> 0, den |-> 0]>>
             \o PilPasses(<<new_w, new_h>>, num, scale)
    ELSE <<>>

\* a mutation of process(): one doubling pass, no loop and no final resize
pil_process_one_pass(dim, scale) ==
    Image(dim[1] * 2, dim[2] * 2)

pil_process(dim, scale) ==
    LET new_width == dim[1] * scale
        new_height == dim[2] * scale
        current == PilLoop(dim, 1, scale)
    IN  IF current # <<new_width, new_height>>
        THEN Image(new_width, new_height)
        ELSE Image(current[1], current[2])

-----------------------------------------------------------------------------
(* Accelerator-process strategy: pure parts *)

\* self.model_mapping
model_mapping_keys == {S_x4plus, S_x4plus_anime, S_animevideov3, S_realesrnet}

model_mapping(k) ==
    IF k = S_animevideov3 THEN S_animevideov3_x4 ELSE k

\* "if model not in self.model_mapping: model = 'realesrgan-x4plus'"
ResolveModel(m) ==
    IF ~m.isNone /\ m.text \in model_mapping_keys THEN m.text ELSE S_x4plus

BinFile(name) == [name |-> name, ext |-> "bin"]
ParamFile(name) == [name |-> name, ext |-> "param"]

\* contents of models/ that are considered
ModelDirs ==
    { {},
      {BinFile(S_x4plus), ParamFile(S_x4plus)},
      {BinFile(S_x4plus)},
      {BinFile(S_x4plus), ParamFile(S_x4plus),
       BinFile(S_x4plus_anime), ParamFile(S_x4plus_anime)} }

\* "Handle different scales"
ScalePlan_native_is_requested(scale) ==
    [actual_scale |-> scale, resize_after |-> scale # 4, final_scale |-> scale]

ScalePlan(scale) ==
    IF scale = 2 THEN [actual_scale |-> 4, resize_after |-> TRUE, final_scale |-> 2]
    ELSE IF scale = 8 THEN [actual_scale |-> 4, resize_after |-> TRUE, final_scale |-> 8]
    ELSE [actual_scale |-> scale, resize_after |-> FALSE, final_scale |-> scale]

\* scale_factor passed to _resize_image: final_scale / actual_scale
ResizeFactor(plan) == [num |-> plan.final_scale, den |-> plan.actual_scale]

\* a path is a sequence of pieces; ".png" is a piece of its own
RECURSIVE ReplacePng(_)
\* path.replace('.png', '_temp.png')
ReplacePng(p) ==
    IF p = <<>> THEN <<>>
    ELSE IF Head(p) = ".png" THEN <<"_temp", ".png">> \o ReplacePng(Tail(p))
    ELSE <<Head(p)>> \o ReplacePng(Tail(p))

\* the argument list of the child process
Cmd(input_path, output_path, plan, model_name) ==
    [i |-> input_path,
     o |-> IF ~plan.resize_after THEN output_path ELSE ReplacePng(output_path),
     s |-> plan.actual_scale,
     n |-> model_name,
     j |-> "1:2:1",
     f |-> "png"]

NoCmd == [i |-> <<>>, o |-> <<>>, s |-> 0, n |-> <<>>, j |-> "", f |-> ""]

\* _resize_image: the size saved for an input of size dim
_resize_image(dim, factor) ==
    <<(dim[1] * factor.num) \div factor.den, (dim[2] * factor.num) \div factor.den>>

\* bytes.decode(): UTF-8; a byte >= 128 here stands for an invalid sequence
decode(bytes) ==
    IF \E i \in 1..Len(bytes) : bytes[i] >= 128
    THEN [ok |-> FALSE, text |-> <<>>]
    ELSE [ok |-> TRUE, text |-> bytes]

\* the text of the messages, as code points
T_UnknownError == <<85, 110, 107, 110, 111, 119, 110, 32, 101, 114, 114, 111, 114>>
T_CodecError == <<105, 110, 118, 97, 108, 105, 100, 32, 115, 116, 97, 114, 116, 32, 98, 121, 116, 101>>

\* what the child process leaves on stderr
StderrSamples == { <<>>, <<69, 114, 114>>, <<255, 69>> }

-----------------------------------------------------------------------------
(* get_memory_usage_estimate, check_models, list_models *)

\* memory_per_pixel (0.000012, 0.000008, 0.000004, 0.000002 MB) is a whole
\* number of millionths of a megabyte; an amount of memory is a number of
\* whole megabytes and a number of millionths below one megabyte
Mega == 1000000

\* pixels * memory_per_pixel * scale * scale
ProcessingMemory(memory_per_pixel, w, h, scale) ==
    LET k == memory_per_pixel * scale * scale
        pixels == w * h
        rest == (pixels % Mega) * k
    IN  [mb |-> (pixels \div Mega) * k + rest \div Mega, micro |-> rest % Mega]

\* base_memory_mb + processing_memory_mb
TotalMemory(base_memory_mb, memory_per_pixel, w, h, scale) ==
    LET processing == ProcessingMemory(memory_per_pixel, w, h, scale)
    IN  [mb |-> base_memory_mb + processing.mb, micro |-> processing.micro]

\* x > mb
Exceeds(x, mb) == x.mb > mb \/ (x.mb = mb /\ x.micro > 0)

\* round(x, 1), in tenths: to the nearest, ties to even
Round1(x) ==
    LET q == x.mb * 10 + x.micro \div (Mega \div 10)
        r == x.micro % (Mega \div 10)
    IN  IF 2 * r > Mega \div 10 THEN q + 1
        ELSE IF 2 * r < Mega \div 10 THEN q
        ELSE IF q % 2 = 0 THEN q ELSE q + 1

\* the dict returned; the two rounded values are in tenths of a megabyte
EstimateDict(base_memory_mb, memory_per_pixel, w, h, scale, tile) ==
    [base_memory_mb |-> base_memory_mb,
     processing_memory_mb |-> Round1(ProcessingMemory(memory_per_pixel, w, h, scale)),
     total_estimated_mb |->
         Round1(TotalMemory(base_memory_mb, memory_per_pixel, w, h, scale)),
     recommended_tile_size |-> tile]

NoEstimate ==
    [base_memory_mb |-> 0, processing_memory_mb |-> 0, total_estimated_mb |-> 0,
     recommended_tile_size |-> -1]

\* a mutation of the estimate of upscaler_simple: the software-resize backend
\* is charged like the inference backend
get_memory_usage_estimate_pil_as_inference(backend, w, h, scale) ==
    IF backend \in {"realesrgan", "pil"}
    THEN EstimateDict(1200, 12, w, h, scale, IF backend = "realesrgan" THEN 400 ELSE 512)
    ELSE IF backend = "ncnn" THEN EstimateDict(800, 8, w, h, scale, 512)
    ELSE EstimateDict(50, 2, w, h, scale, 512)

\* upscaler_simple: the estimate with self.active_backend = backend
get_memory_usage_estimate(backend, w, h, scale) ==
    LET tile == IF backend = "realesrgan" THEN 400 ELSE 512
    IN  IF backend = "realesrgan" THEN EstimateDict(1200, 12, w, h, scale, tile)
        ELSE IF backend = "ncnn" THEN EstimateDict(800, 8, w, h, scale, tile)
        ELSE IF backend = "pil" THEN EstimateDict(100, 4, w, h, scale, tile)
        ELSE EstimateDict(50, 2, w, h, scale, tile)

\* megabytes above which upscaler.py recommends tiling
Ceiling == 2000

\* upscaler.py: "512 if total_memory_mb > 2000 else 0"
upscaler_get_memory_usage_estimate(w, h, scale) ==
    EstimateDict(800, 8, w, h, scale,
                 IF Exceeds(TotalMemory(800, 8, w, h, scale), Ceiling) THEN 512 ELSE 0)

\* upscaler_hybrid
hybrid_get_memory_usage_estimate(python, w, h, scale) ==
    IF python THEN EstimateDict(1200, 12, w, h, scale, 400)
    ELSE EstimateDict(800, 8, w, h, scale, 512)

\* upscaler_simple: check_models() when models/ holds model_dir
check_models(backend, model_dir) ==
    IF backend = "realesrgan" THEN backends["realesrgan"].available
    ELSE IF backend = "ncnn" THEN \E file \in model_dir : file.ext = "bin"
    ELSE backend = "pil"

\* upscaler_simple: list_models() when models/ holds model_dir
list_models(backend, model_dir) ==
    IF backend = "realesrgan" THEN {"RealESRGAN_x4plus", "RealESRNet_x4plus"}
    ELSE IF backend = "ncnn"
    THEN {k \in model_mapping_keys :
             BinFile(model_mapping(k)) \in model_dir /\ ParamFile(model_mapping(k)) \in model_dir}
    ELSE IF backend = "pil" THEN {"pil-lanczos", "pil-bicubic"}
    ELSE {}

-----------------------------------------------------------------------------------------------------------------------------------------------------
(* Files, jobs and results *)

Id(j) == ToString(j)

\* main.py names the files of a request after a fresh uuid
InputPath(j) == <<"temp/input_", Id(j), ".png">>

OutputPath(j, shape) ==
    IF shape = "png" THEN <<"temp/output_", Id(j), ".png">>
    ELSE <<"temp/output_", Id(j)>>

SlotPaths(j) ==
    {InputPath(j)} \cup {OutputPath(j, sh) : sh \in OutShapes}
                   \cup {ReplacePng(OutputPath(j, sh)) : sh \in OutShapes}

Paths == UNION {SlotPaths(j) : j \in Slots}

Exists(f, p) == f[p] # NoFile

Absent == "absent"

NoReason == [lit |-> <<>>, text |-> <<>>]
Reason(lit, text) == [lit |-> lit, text |-> text]

\* how a child process can end: exit code, whether it wrote the file named
\* by -o, and what it left on stderr
ChildExits ==
    {[code |-> 0, wrote |-> TRUE, stderr |-> <<>>],
     [code |-> 0, wrote |-> FALSE, stderr |-> <<>>],
     [code |-> 1, wrote |-> TRUE, stderr |-> <<69, 114, 114>>]}
    \cup {[code |-> 1, wrote |-> FALSE, stderr |-> e] : e \in StderrSamples}

NoChild == [code |-> -1, wrote |-> FALSE, stderr |-> <<>>]
NoPlan == [actual_scale |-> 0, resize_after |-> FALSE, final_scale |-> 0]
NoFactor == [num |-> 0, den |-> 0]

IdleJob ==
    [pc |-> "idle", via |-> "", strategy |-> "", scale |-> 0, model |-> NoneHint,
     dim |-> <<0, 0>>, out_path |-> <<>>, variant |-> "", plan |-> NoPlan,
     cmd |-> NoCmd, child |-> NoChild]

NewJob(via, strategy, scale, model, dim, out_path) ==
    [IdleJob EXCEPT !.via = via, !.strategy = strategy, !.scale = scale,
                    !.model = model, !.dim = dim, !.out_path = out_path]

\* what an operation that is no job answers: the dict of an estimate, the
\* bool of check_binary or check_models, the list of list_models (dir is the
\* content of models/ the two were computed on, when both were asked together)
NoAnswer == [estimate |-> NoEstimate, value |-> "", models |-> {}, dir |-> {}]

NoResult ==
    [slot |-> 0, via |-> "", strategy |-> "", scale |-> 0, model |-> NoneHint,
     dim |-> <<0, 0>>, variant |-> "", cmd |-> NoCmd, child |-> NoChild,
     ret |-> "", http |-> 0, reason |-> NoReason, out |-> NoFile,
     factor |-> NoFactor, left |-> {}, effects |-> {}, answer |-> NoAnswer]

\* the outcome of job jb: ret is what upscale() delivered ("True", "False",
\* "raised", or "" when upscale() was not called), http the status main.py
\* answers with (0 for a direct call), out the size of the output image the
\* job produced, left the job's files that exist when the caller has its answer
Result(j, jb, ret, http, reason, out, factor, left, eff) ==
    [slot |-> j, via |-> jb.via, strategy |-> jb.strategy, scale |-> jb.scale,
     model |-> jb.model, dim |-> jb.dim, variant |-> jb.variant, cmd |-> jb.cmd,
     child |-> jb.child, ret |-> ret, http |-> http, reason |-> reason,
     out |-> out, factor |-> factor, left |-> left, effects |-> eff,
     answer |-> NoAnswer]

Left(f, j) == {p \in SlotPaths(j) : Exists(f, p)}

\* The job is over. Its files leave the model: the next job of the slot is
\* given fresh names (main.py: a new uuid).
Finish(j, res) ==
    /\ delivered' = res
    /\ job' = [job EXCEPT ![j] = IdleJob]
    /\ effects' = [effects EXCEPT ![j] = {}]
    /\ files' = [p \in Paths |-> IF p \in SlotPaths(j) THEN NoFile ELSE files[p]]

\* the job ends for a direct caller, who is left with the files in f
Raise(j, jb, reason, factor, f, eff) ==
    Finish(j, Result(j, jb, "raised", 0, reason, NoFile, factor, Left(f, j), eff))

Return(j, jb, value, factor, f, eff) ==
    Finish(j, Result(j, jb, IF value THEN "True" ELSE "False", 0, NoReason,
                     f[jb.out_path], factor, Left(f, j), eff))

\* a mutation of the frame: a job whose strategy returned False makes the
\* orchestrator select the software-resize backend from then on
Unchanged_registry_reselects ==
    /\ UNCHANGED <<deployed, request, backends, use_python_version, python_available>>
    /\ active_backend' = IF delivered'.ret = "False" /\ active_backend # Absent
                         THEN "pil" ELSE active_backend

Unchanged_registry ==
    UNCHANGED <<deployed, request, backends, active_backend, use_python_version,
                python_available>>

-----------------------------------------------------------------------------
(* Construction *)

\* what runs in the process: app/main.py serving with app/upscaler_simple.py,
\* or one of the three upscaler classes used by a caller of its own
Deployments == {"main", "simple", "upscaler", "hybrid"}

\* check_binary(): the binary exists and is executable, read from the disk
\* whenever it is called

Init ==
    /\ deployed \in Deployments
    /\ request \in IF deployed = "main"
                   THEN [scale : Scales \cup {3}, model : ModelHints,
                         payload : ClientPayloads, shape : {"png"}]
                   ELSE IF deployed = "simple"
                   THEN [scale : Scales, model : ModelHints,
                         payload : ImagePayloads, shape : {"png"}]
                   ELSE [scale : Scales, model : ModelHints,
                         payload : ImagePayloads, shape : OutShapes]
    /\ IF deployed \in {"main", "simple"}
       THEN /\ \E import_realesrgan, import_torch, import_pil, check_binary \in BOOLEAN :
                  \* the realesrgan package itself imports torch
                  /\ import_realesrgan => import_torch
                  \* main.py has imported PIL before it constructs the upscaler
                  /\ deployed = "main" => import_pil
                  /\ backends = _init_backends(import_realesrgan, import_torch,
                                            import_pil, check_binary)
            /\ active_backend = _select_backend(backends)
       ELSE /\ backends = Absent
            /\ active_backend = Absent
    /\ IF deployed = "hybrid"
       THEN \E check_binary, import_realesrgan \in BOOLEAN :
               /\ use_python_version = ~check_binary
               /\ IF use_python_version
                  THEN \* _init_python_version
                       /\ python_available = import_realesrgan
                       /\ python_upscaler = IF import_realesrgan THEN "None" ELSE Absent
                  ELSE /\ python_available = Absent
                       /\ python_upscaler = Absent
       ELSE /\ use_python_version = Absent
            /\ python_available = Absent
            /\ python_upscaler = Absent
    /\ job = [j \in Slots |-> IdleJob]
    /\ files = [p \in Paths |-> NoFile]
    /\ effects = [j \in Slots |-> {}]
    /\ built = {}
    /\ delivered = NoResult

-----------------------------------------------------------------------------
(* app/main.py with app/upscaler_simple.py: the served API *)

\* whether the upload's content type starts with image/
ContentTypes(j) == IF j = 1 THEN BOOLEAN ELSE {TRUE}

\* whether image_base64 is the empty string
EmptyBodies(j) == IF j = 1 THEN BOOLEAN ELSE {FALSE}

\* a mutation of the finally block: only the input is removed
Cleanup_keeps_output(f, j, out_path, remove_ok) ==
    IF remove_ok THEN [f EXCEPT ![InputPath(j)] = NoFile] ELSE f

\* the finally block of _process_upscale: os.remove of input and output,
\* errors ignored
Cleanup(f, j, out_path, remove_ok) ==
    IF remove_ok
    THEN [f EXCEPT ![InputPath(j)] = NoFile, ![out_path] = NoFile]
    ELSE f

\* the answer of _process_upscale, after its finally block
Answer(j, jb, ret, http, reason, f, eff) ==
    \E remove_ok \in BOOLEAN :
        \* nothing to remove: the outcome of os.remove plays no part
        /\ (Left(f, j) = {} => remove_ok)
        /\ Finish(j, Result(j, jb, ret, http, reason,
                            IF http = 200 THEN f[jb.out_path] ELSE NoFile, NoFactor,
                            Left(Cleanup(f, j, jb.out_path, remove_ok), j),
                            IF remove_ok THEN eff ELSE eff \cup {"remove_failed"}))

\* main.py after "success = await upscaler.upscale(...)"
Respond(j, jb, f, success, eff) ==
    IF ~success
    THEN Answer(j, jb, "False", 500,
                Reason(<<"Upscaling failed with ", active_backend, " backend">>, <<>>), f, eff)
    ELSE IF ~Exists(f, jb.out_path)
    THEN Answer(j, jb, "True", 500, Reason(<<"Output file was not created">>, <<>>), f, eff)
    ELSE Answer(j, jb, "True", 200, NoReason, f, eff)

\* _upscale_ncnn of upscaler_simple: "return False  # Placeholder"
simple_upscale_ncnn == FALSE

\* a mutation of what upscale() hands to its caller: a job whose strategy
\* failed is run again on the software-resize backend
Deliver_retries_on_pil(j, jb, f, success, eff) ==
    IF ~success /\ jb.strategy # "pil" /\ backends["pil"].available
    THEN /\ job' = [job EXCEPT ![j] = [jb EXCEPT !.strategy = "pil", !.pc = "pil_queued"]]
         /\ files' = f
         /\ effects' = [effects EXCEPT ![j] = eff]
         /\ delivered' = NoResult
    ELSE IF jb.via = "direct"
    THEN Return(j, jb, success, NoFactor, f, eff)
    ELSE Respond(j, jb, f, success, eff)

\* what upscale() hands to its caller: main.py goes on after
\* "success = await upscaler.upscale(...)", another caller has the value
Deliver(j, jb, f, success, eff) ==
    IF jb.via = "direct"
    THEN Return(j, jb, success, NoFactor, f, eff)
    ELSE Respond(j, jb, f, success, eff)

\* upscale() with a backend that is none of the three: a mutation that
\* falls back to a plain resize and writes the output
NoBackend_falls_back(j, jb, f, eff) ==
    Deliver(j, jb, [f EXCEPT ![jb.out_path] = pil_process(jb.dim, jb.scale).dim],
            TRUE, eff \cup {"strategy", "write_output"})

\* upscale() with a backend that is none of the three:
\* raise Exception("No upscaling backend available")
NoBackend(j, jb, f, eff) ==
    IF jb.via = "direct"
    THEN Raise(j, jb, Reason(<<"No upscaling backend available">>, <<>>), NoFactor, f, eff)
    ELSE \* main.py: except Exception -> 500
         Answer(j, jb, "raised", 500,
                Reason(<<"Processing error: ", "No upscaling backend available">>, <<>>),
                f, eff)

\* upscale() of upscaler_simple up to its first suspension; f holds the
\* input file, eff what the caller has done so far
upscale(j, jb0, f, eff) ==
    CASE active_backend = "ncnn" ->
         /\ Deliver(j, jb0, f, simple_upscale_ncnn, eff \cup {"strategy"})
         /\ UNCHANGED built
      [] active_backend = "pil" ->
         \* run_in_executor(None, process): the coroutine suspends
         /\ job' = [job EXCEPT ![j] = [jb0 EXCEPT !.pc = "pil_queued"]]
         /\ files' = f
         /\ effects' = [effects EXCEPT ![j] = eff \cup {"strategy"}]
         /\ delivered' = NoResult
         /\ UNCHANGED built
      [] active_backend = "realesrgan" ->
         LET v == Variant(str(jb0.model))
             jb == [jb0 EXCEPT !.variant = v]
         IN  \E construct_ok \in BOOLEAN :
             IF construct_ok
             THEN \* RRDBNet(...) and RealESRGANer(...) are built for this job
                  \* and process is submitted to a new single-worker executor
                  /\ built' = built \cup {v}
                  /\ job' = [job EXCEPT ![j] = [jb EXCEPT !.pc = "queued"]]
                  /\ files' = f
                  /\ effects' = [effects EXCEPT ![j] =
                                    eff \cup {"strategy", "construct_model"}]
                  /\ delivered' = NoResult
             ELSE \* the constructor raises; except Exception -> return False
                  /\ Deliver(j, jb, f, FALSE, eff \cup {"strategy", "exception"})
                  /\ UNCHANGED built
      [] OTHER ->
         /\ NoBackend(j, jb0, f, eff)
         /\ UNCHANGED built

\* _process_upscale up to its first suspension
ProcessUpscale(j, via, payload, scale, model) ==
    LET jb0 == NewJob(via, active_backend, scale, model, payload.dim,
                      OutputPath(j, "png"))
        saved == [files EXCEPT ![InputPath(j)] = payload.dim]
    IN
    IF ~payload.image
    THEN \* Image.open raises; except Exception -> 500
         /\ Answer(j, jb0, "", 500,
                   Reason(<<"Processing error: ", "cannot identify image file">>, <<>>),
                   files, {})
         /\ UNCHANGED built
    ELSE upscale(j, jb0, saved, {"write_input"})

Rejected(j, via, scale, model, code, detail) ==
    Finish(j, [NoResult EXCEPT !.slot = j, !.via = via, !.scale = scale,
                               !.model = model, !.http = code,
                               !.reason = Reason(detail, <<>>)])

\* a mutation of the endpoints' first check: every scale is let through
ValidScale_any(scale) == TRUE

\* "if scale not in [2, 4, 8]: raise HTTPException(status_code=400, ...)"
ValidScale(scale) == scale \in {2, 4, 8}

\* POST /upscale
upscale_image_file(j) ==
    /\ deployed = "main"
    /\ job[j].pc = "idle"
    /\ \E scale \in ScalesFor(j), model \in HintsFor(j) :
          \/ /\ ~ValidScale(scale)
             /\ Rejected(j, "upscale", scale, model, 400, <<"Scale must be 2, 4, or 8">>)
             /\ UNCHANGED built
          \/ /\ ValidScale(scale)
             /\ \E payload \in PayloadsFor(j) :
                   IF payload.large
                   THEN /\ Rejected(j, "upscale", scale, model, 413,
                                    <<"File too large. Max size: 2MB">>)
                        /\ UNCHANGED built
                   ELSE \E is_image_type \in ContentTypes(j) :
                           IF ~is_image_type
                           THEN /\ Rejected(j, "upscale", scale, model, 400,
                                            <<"File must be an image">>)
                                /\ UNCHANGED built
                           ELSE ProcessUpscale(j, "main", payload, scale, model)
    /\ UNCHANGED python_upscaler
    /\ Unchanged_registry

\* str(e) of an HTTPException: "<status>: <detail>" with the libraries of
\* today, the empty string with those that do not define it
HTTPExceptionStr(status_code, detail) ==
    {<<ToString(status_code), ": ", detail>>, <<>>}

\* POST /upscale-base64
upscale_image_base64(j) ==
    /\ deployed = "main"
    /\ job[j].pc = "idle"
    /\ \E scale \in ScalesFor(j), model \in HintsFor(j) :
          \/ /\ ~ValidScale(scale)
             /\ Rejected(j, "upscale-base64", scale, model, 400,
                         <<"Scale must be 2, 4, or 8">>)
             /\ UNCHANGED built
          \/ /\ ValidScale(scale)
             /\ TRUE \in EmptyBodies(j)
             /\ Rejected(j, "upscale-base64", scale, model, 400,
                         <<"image_base64 is required">>)
             /\ UNCHANGED built
          \/ /\ ValidScale(scale)
             /\ \E payload \in PayloadsFor(j) :
                   IF payload.large
                   THEN \* the 413 is raised inside the try and caught by
                        \* "except Exception", which raises a 400 instead
                        /\ \E text \in HTTPExceptionStr(413, "Image too large. Max size: 2MB") :
                              Rejected(j, "upscale-base64", scale, model, 400,
                                       <<"Invalid base64 image data: ">> \o text)
                        /\ UNCHANGED built
                   ELSE IF ~payload.image
                   THEN /\ Rejected(j, "upscale-base64", scale, model, 400,
                                    <<"Invalid base64 image data: ",
                                      "cannot identify image file">>)
                        /\ UNCHANGED built
                   ELSE ProcessUpscale(j, "main", payload, scale, model)
    /\ UNCHANGED python_upscaler
    /\ Unchanged_registry

\* upscale() of upscaler_simple, called by the owner of the job's files
simple_upscale(j) ==
    /\ deployed = "simple"
    /\ job[j].pc = "idle"
    /\ \E scale \in ScalesFor(j), model \in HintsFor(j), payload \in PayloadsFor(j) :
          upscale(j, NewJob("direct", active_backend, scale, model, payload.dim,
                            OutputPath(j, "png")),
                  [files EXCEPT ![InputPath(j)] = payload.dim], {})
    /\ UNCHANGED python_upscaler
    /\ Unchanged_registry

-----------------------------------------------------------------------------
(* Worker threads and the continuations of the suspended coroutines *)

\* how a worker's process() can end: it saves its output, it raises, or
\* (cv2.imwrite) it returns without having written the file
WorkerOutcomes == {"ok", "raise", "nowrite"}

\* the worker thread of the job's own executor picks up process(): cv2.imread
\* and upscaler.enhance are running
StartInference(j) ==
    /\ job[j].pc = "queued"
    /\ job' = [job EXCEPT ![j].pc = "inferring"]
    /\ effects' = [effects EXCEPT ![j] = @ \cup {"inference"}]
    /\ delivered' = NoResult
    /\ UNCHANGED <<files, python_upscaler, built>>
    /\ Unchanged_registry

\* the files after the inference worker has ended with outcome
AfterInference(j, outcome) ==
    LET r == process(job[j].dim, job[j].scale)
    IN  IF outcome = "ok" /\ r.ok
        THEN [files EXCEPT ![job[j].out_path] = r.dim]
        ELSE files

\* whether future.result() returns True (process() raised otherwise)
InferenceReturns(j, outcome) ==
    outcome # "raise" /\ process(job[j].dim, job[j].scale).ok

\* upscaler_simple, inference: the worker ends, future.result returns or
\* raises in the coroutine, and the caller of upscale() has its value
ProcessUpscaleResumeInference(j) ==
    /\ deployed \in {"main", "simple"}
    /\ job[j].pc = "inferring"
    /\ \E outcome \in WorkerOutcomes :
          LET f == AfterInference(j, outcome)
              eff == effects[j] \cup
                     (IF Exists(f, job[j].out_path) THEN {"write_output"} ELSE {}) \cup
                     (IF InferenceReturns(j, outcome) THEN {} ELSE {"exception"})
          IN  Deliver(j, job[j], f, InferenceReturns(j, outcome), eff)
    /\ UNCHANGED <<python_upscaler, built>>
    /\ Unchanged_registry

\* upscaler_simple, software resize: a thread of the default executor runs
\* process(), and the caller of upscale() has its value
ProcessUpscaleResumePil(j) ==
    /\ deployed \in {"main", "simple"}
    /\ job[j].pc = "pil_queued"
    /\ \E outcome \in {"ok", "raise"} :
          LET r == pil_process(job[j].dim, job[j].scale)
              f == IF outcome = "ok"
                   THEN [files EXCEPT ![job[j].out_path] = r.dim]
                   ELSE files
              eff == effects[j] \cup
                     (IF outcome = "ok" THEN {"write_output"} ELSE {"exception"})
          IN  Deliver(j, job[j], f, outcome = "ok", eff)
    /\ UNCHANGED <<python_upscaler, built>>
    /\ Unchanged_registry

-----------------------------------------------------------------------------
(* Accelerator-process strategy: upscale() of app/upscaler.py and            *)
(* _upscale_ncnn() of app/upscaler_hybrid.py, which are the same code        *)

\* a mutation of the model-file check: the .bin file alone is enough
ModelFilesExist_bin_only(model_name, model_dir) ==
    BinFile(model_name) \in model_dir

\* "bin_file.exists() and param_file.exists()" when models/ holds model_dir
ModelFilesExist(model_name, model_dir) ==
    BinFile(model_name) \in model_dir /\ ParamFile(model_name) \in model_dir

\* what the job found on the disk when it looked: the executable binary
\* and the two files of the model it resolved
Saw(check_binary, model_name, model_dir) ==
    (IF check_binary THEN {"saw_binary"} ELSE {})
    \cup (IF BinFile(model_name) \in model_dir THEN {"saw_bin"} ELSE {})
    \cup (IF ParamFile(model_name) \in model_dir THEN {"saw_param"} ELSE {})

\* from the call to the suspension on the child process; f holds the input
\* file the caller made
UpscaleNcnn(j, jb0, f) ==
    LET model_name == model_mapping(ResolveModel(jb0.model))
        plan == ScalePlan(jb0.scale)
        jb == [jb0 EXCEPT !.plan = plan,
                          !.cmd = Cmd(InputPath(j), jb0.out_path, plan, model_name)]
    IN  \E check_binary \in BOOLEAN :
           IF ~check_binary
           THEN Raise(j, jb0, Reason(<<"Real-ESRGAN binary not found or not executable">>, <<>>),
                      NoFactor, f, {})
           ELSE \E seen \in {[exist |-> ModelFilesExist(model_name, model_dir),
                                saw |-> Saw(check_binary, model_name, model_dir)] :
                                  model_dir \in ModelDirs} :
           LET saw == seen.saw
           IN
           IF ~seen.exist
           THEN Raise(j, jb0, Reason(<<"Model files not found for ">>, <<>>), NoFactor, f, saw)
           ELSE \E spawn_ok \in BOOLEAN :
                IF ~spawn_ok
                THEN \* create_subprocess_exec raises inside the try
                     Raise(j, jb, Reason(<<"Upscaling failed: ", "exec failed">>, <<>>),
                           NoFactor, f, saw \cup {"strategy"})
                ELSE /\ job' = [job EXCEPT ![j] = [jb EXCEPT !.pc = "child"]]
                     /\ files' = f
                     /\ effects' = [effects EXCEPT ![j] = saw \cup {"strategy", "spawn"}]
                     /\ delivered' = NoResult

\* the code after "await process.communicate()" when the exit code is 0
AfterExitZero_no_verify(j, jb, f) ==
    LET temp_output == ReplacePng(jb.out_path)
        factor == ResizeFactor(jb.plan)
    IN  IF jb.plan.resize_after /\ Exists(f, temp_output)
        THEN Return(j, jb, TRUE, factor,
                    [f EXCEPT ![jb.out_path] = _resize_image(f[temp_output], factor),
                              ![temp_output] = NoFile],
                    effects[j] \cup {"post_resize", "write_output"})
        ELSE Return(j, jb, TRUE, NoFactor, f, effects[j])

AfterExitZero(j, jb, f) ==
    LET temp_output == ReplacePng(jb.out_path)
        factor == ResizeFactor(jb.plan)
        resized == [f EXCEPT ![jb.out_path] = _resize_image(f[temp_output], factor)]
        removed == [resized EXCEPT ![temp_output] = NoFile]
        eff == effects[j] \cup {"post_resize"}
    IN  IF jb.plan.resize_after
        THEN IF ~Exists(f, temp_output)
             THEN \* Image.open raises FileNotFoundError
                  Raise(j, jb, Reason(<<"Upscaling failed: ", "No such file or directory">>, <<>>),
                        factor, f, eff)
             ELSE \E resize_ok \in BOOLEAN :
                  IF ~resize_ok
                  THEN Raise(j, jb, Reason(<<"Upscaling failed: ", "resize failed">>, <<>>),
                             factor, f, eff)
                  ELSE \E remove_ok \in BOOLEAN :
                       IF ~remove_ok
                       THEN \* os.remove raises
                            Raise(j, jb, Reason(<<"Upscaling failed: ", "remove failed">>, <<>>),
                                  factor, resized, eff \cup {"write_output"})
                       ELSE Return(j, jb, Exists(removed, jb.out_path), factor, removed,
                                   eff \cup {"write_output"})
        ELSE Return(j, jb, Exists(f, jb.out_path), NoFactor, f,
                    effects[j] \cup (IF Exists(f, jb.out_path) THEN {"write_output"} ELSE {}))

\* the code after "await process.communicate()" when the exit code is not 0
AfterExitNonZero(j, jb, f, stderr) ==
    LET d == decode(stderr)
    IN  IF stderr # <<>> /\ ~d.ok
        THEN \* stderr.decode() raises UnicodeDecodeError, caught by except Exception
             Raise(j, jb, Reason(<<"Upscaling failed: ">>, T_CodecError), NoFactor, f, effects[j])
        ELSE Raise(j, jb,
                   Reason(<<"Upscaling failed: ", "Real-ESRGAN process failed: ">>,
                          IF stderr # <<>> THEN d.text ELSE T_UnknownError),
                   NoFactor, f, effects[j])

\* the child process ends and the coroutine runs to its end
UpscaleNcnnResume(j) ==
    /\ deployed \in {"upscaler", "hybrid"}
    /\ job[j].pc = "child"
    /\ \E exit \in ChildExits :
          LET jb == [job[j] EXCEPT !.child = exit]
              f == IF exit.wrote
                   THEN [files EXCEPT ![jb.cmd.o] =
                            <<jb.dim[1] * jb.cmd.s, jb.dim[2] * jb.cmd.s>>]
                   ELSE files
          IN  IF exit.code # 0
              THEN AfterExitNonZero(j, jb, f, exit.stderr)
              ELSE AfterExitZero(j, jb, f)
    /\ UNCHANGED <<python_upscaler, built>>
    /\ Unchanged_registry

\* app/upscaler.py: upscale(), called by the owner of the job's files
upscaler_upscale(j) ==
    /\ deployed = "upscaler"
    /\ job[j].pc = "idle"
    /\ \E scale \in ScalesFor(j), model \in HintsFor(j), payload \in PayloadsFor(j),
          shape \in ShapesFor(j) :
          UpscaleNcnn(j, NewJob("direct", "ncnn", scale, model, payload.dim,
                                OutputPath(j, shape)),
                      [files EXCEPT ![InputPath(j)] = payload.dim])
    /\ UNCHANGED <<python_upscaler, built>>
    /\ Unchanged_registry

\* The caller abandons the job (task.cancel(), asyncio.wait_for timing out)
\* while upscale() awaits process.communicate(): CancelledError is raised at
\* the await; it is no Exception, so "except Exception" lets it through, and
\* there is no finally. The coroutine is gone and the child runs on.
\* It is the observed client who abandons a job.
Cancel(j) ==
    /\ deployed \in {"upscaler", "hybrid"}
    /\ j = 1
    /\ job[j].pc = "child"
    /\ job' = [job EXCEPT ![j].pc = "abandoned"]
    /\ effects' = [effects EXCEPT ![j] = @ \cup {"cancelled"}]
    /\ delivered' = Result(j, job[j], "cancelled", 0, NoReason, NoFile, NoFactor,
                           Left(files, j), effects[j] \cup {"cancelled"})
    /\ UNCHANGED <<files, python_upscaler, built>>
    /\ Unchanged_registry

\* the child of an abandoned job ends by itself; nothing of the program
\* runs for the job any more, and nobody reads the exit code or stderr
OrphanExits(j) ==
    /\ deployed \in {"upscaler", "hybrid"}
    /\ job[j].pc = "abandoned"
    /\ \E exit \in {e \in ChildExits : e.stderr = <<>> /\ e.code = 0} :
          /\ job' = [job EXCEPT ![j].pc = "orphan_done"]
          /\ files' = IF exit.wrote
                      THEN [files EXCEPT ![job[j].cmd.o] =
                               <<job[j].dim[1] * job[j].cmd.s, job[j].dim[2] * job[j].cmd.s>>]
                      ELSE files
    /\ delivered' = NoResult
    /\ UNCHANGED <<effects, python_upscaler, built>>
    /\ Unchanged_registry

-----------------------------------------------------------------------------
(* Operations that are no jobs *)

\* the observed client asks between its jobs
Asking(j) == j = 1 /\ job[j].pc = "idle"

\* the caller of slot j has the answer of operation op
Answered(j, op, dim, scale, answer) ==
    /\ delivered' = [NoResult EXCEPT !.slot = j, !.via = op, !.dim = dim,
                                     !.scale = scale, !.answer = answer]
    /\ UNCHANGED <<job, files, effects, built, python_upscaler>>
    /\ Unchanged_registry

\* get_memory_usage_estimate of the class that is deployed
EstimateOf(w, h, scale) ==
    IF deployed \in {"main", "simple"}
    THEN get_memory_usage_estimate(active_backend, w, h, scale)
    ELSE IF deployed = "upscaler" THEN upscaler_get_memory_usage_estimate(w, h, scale)
    ELSE hybrid_get_memory_usage_estimate(use_python_version, w, h, scale)

EstimateOn(j, dims, scales) ==
    \E dim \in dims, scale \in scales :
        Answered(j, "get_memory_usage_estimate", dim, scale,
                 [NoAnswer EXCEPT !.estimate = EstimateOf(dim[1], dim[2], scale)])

\* an estimate for the image and the scale of a request
memory_estimate(j) ==
    /\ Asking(j)
    /\ EstimateOn(j, {payload.dim : payload \in PayloadsFor(j)}, ScalesFor(j))

\* check_binary(): what the disk says at the time of the call
check_binary(j) ==
    /\ Asking(j)
    /\ \E bin \in BOOLEAN :
        Answered(j, "check_binary", <<0, 0>>, 0,
                 [NoAnswer EXCEPT !.value = IF bin THEN "True" ELSE "False"])

\* check_models() and list_models() of upscaler_simple
simple_check_models(j) ==
    /\ Asking(j)
    /\ deployed \in {"main", "simple"}
    /\ \E value \in {check_models(active_backend, model_dir) : model_dir \in ModelDirs} :
          Answered(j, "check_models", <<0, 0>>, 0,
                   [NoAnswer EXCEPT !.value = IF value THEN "True" ELSE "False"])

simple_list_models(j) ==
    /\ Asking(j)
    /\ deployed \in {"main", "simple"}
    /\ \E models \in {list_models(active_backend, model_dir) : model_dir \in ModelDirs} :
          Answered(j, "list_models", <<0, 0>>, 0, [NoAnswer EXCEPT !.models = models])

-----------------------------------------------------------------------------
(* app/upscaler_hybrid.py *)

\* _upscale_python from the call to the suspension on the worker
UpscalePython(j, jb, f) ==
    IF python_available # TRUE
    THEN /\ Raise(j, jb, Reason(<<"Python Real-ESRGAN not available">>, <<>>), NoFactor, f, {})
         /\ UNCHANGED <<python_upscaler, built>>
    ELSE IF python_upscaler # "None"
    THEN \* the cached handle is used
         /\ job' = [job EXCEPT ![j] = [jb EXCEPT !.pc = "queued", !.variant = python_upscaler]]
         /\ files' = f
         /\ effects' = [effects EXCEPT ![j] = {"strategy"}]
         /\ delivered' = NoResult
         /\ UNCHANGED <<python_upscaler, built>>
    ELSE IF jb.model.isNone
    THEN \* model.lower() raises AttributeError inside the try
         /\ Raise(j, jb, Reason(<<"Python upscaling failed: ", "no attribute 'lower'">>, <<>>),
                  NoFactor, f, {"strategy", "exception"})
         /\ UNCHANGED <<python_upscaler, built>>
    ELSE \E construct_ok \in BOOLEAN :
         IF ~construct_ok
         THEN /\ Raise(j, jb, Reason(<<"Python upscaling failed: ", "constructor failed">>, <<>>),
                       NoFactor, f, {"strategy", "exception"})
              /\ UNCHANGED <<python_upscaler, built>>
         ELSE LET v == Variant(jb.model.text)
              IN  /\ python_upscaler' = v
                  /\ built' = built \cup {v}
                  /\ job' = [job EXCEPT ![j] = [jb EXCEPT !.pc = "queued", !.variant = v]]
                  /\ files' = f
                  /\ effects' = [effects EXCEPT ![j] = {"strategy", "construct_model"}]
                  /\ delivered' = NoResult

\* upscale(), called by the owner of the job's files
hybrid_upscale(j) ==
    /\ deployed = "hybrid"
    /\ job[j].pc = "idle"
    /\ \E scale \in ScalesFor(j), model \in HintsFor(j), payload \in PayloadsFor(j),
          shape \in ShapesFor(j) :
          LET dim == payload.dim
              f == [files EXCEPT ![InputPath(j)] = dim]
          IN  IF use_python_version
              THEN UpscalePython(j, NewJob("direct", "python", scale, model, dim,
                                           OutputPath(j, shape)), f)
              ELSE /\ UpscaleNcnn(j, NewJob("direct", "ncnn", scale, model, dim,
                                            OutputPath(j, shape)), f)
                   /\ UNCHANGED <<python_upscaler, built>>
    /\ Unchanged_registry

\* the worker ends, future.result returns or raises in the coroutine
UpscalePythonResume(j) ==
    /\ deployed = "hybrid"
    /\ job[j].pc = "inferring"
    /\ \E outcome \in WorkerOutcomes :
          LET f == AfterInference(j, outcome)
              eff == effects[j] \cup
                     (IF Exists(f, job[j].out_path) THEN {"write_output"} ELSE {}) \cup
                     (IF InferenceReturns(j, outcome) THEN {} ELSE {"exception"})
          IN  IF InferenceReturns(j, outcome)
              THEN Return(j, job[j], TRUE, NoFactor, f, eff)
              ELSE Raise(j, job[j],
                         Reason(<<"Python upscaling failed: ", "process failed">>, <<>>),
                         NoFactor, f, eff)
    /\ UNCHANGED <<python_upscaler, built>>
    /\ Unchanged_registry

-----------------------------------------------------------------------------

Next ==
    \E j \in Slots :
        \/ upscale_image_file(j)
        \/ upscale_image_base64(j)
        \/ simple_upscale(j)
        \/ StartInference(j)
        \/ ProcessUpscaleResumeInference(j)
        \/ ProcessUpscaleResumePil(j)
        \/ upscaler_upscale(j)
        \/ hybrid_upscale(j)
        \/ UpscaleNcnnResume(j)
        \/ UpscalePythonResume(j)
        \/ Cancel(j)
        \/ OrphanExits(j)
        \/ memory_estimate(j)
        \/ check_binary(j)
        \/ simple_check_models(j)
        \/ simple_list_models(j)

Spec == Init /\ [][Next]_vars

\* what is under way goes on: worker threads run, child processes end and
\* the event loop resumes the coroutines that wait for them
Continue(j) ==
    \/ StartInference(j)
    \/ ProcessUpscaleResumeInference(j)
    \/ ProcessUpscaleResumePil(j)
    \/ UpscaleNcnnResume(j)
    \/ UpscalePythonResume(j)
    \/ OrphanExits(j)

FairSpec == Spec /\ \A j \in Slots : WF_vars(Continue(j))

\* get_memory_usage_estimate applied to images of many sizes
EstimateDims ==
    {<<1, 1>>, <<100, 100>>, <<512, 512>>, <<1920, 1080>>, <<4096, 4096>>, <<8000, 8000>>}

sweep_estimate ==
    /\ Asking(1)
    /\ EstimateOn(1, EstimateDims, Scales)

EstimateSpec == Init /\ [][sweep_estimate]_vars

-----------------------------------------------------------------------------
(* Properties *)

re_available == backends["realesrgan"].available
ncnn_available == backends["ncnn"].available
pil_available == backends["pil"].available

\* a job of the served API for which upscaler.upscale() was called has ended
ServedJobEnded == deployed = "main" /\ delivered.slot # 0 /\ delivered.ret # ""

\* a job of the accelerator-process strategy has ended after its child exited
AcceleratorJobEnded == delivered.strategy = "ncnn" /\ delivered.child # NoChild

\* a job of the inference strategy has ended
InferenceStrategies == {"realesrgan", "python"}

\* the table of the eight availability combinations (realesrgan, ncnn, pil)
SelectionTable ==
    [c \in BOOLEAN \X BOOLEAN \X BOOLEAN |->
        CASE c = <<TRUE, TRUE, TRUE>> -> "realesrgan"
          [] c = <<TRUE, TRUE, FALSE>> -> "realesrgan"
          [] c = <<TRUE, FALSE, TRUE>> -> "realesrgan"
          [] c = <<TRUE, FALSE, FALSE>> -> "realesrgan"
          [] c = <<FALSE, TRUE, TRUE>> -> "ncnn"
          [] c = <<FALSE, TRUE, FALSE>> -> "ncnn"
          [] c = <<FALSE, FALSE, TRUE>> -> "pil"
          [] c = <<FALSE, FALSE, FALSE>> -> "none"]

\* C1: the backend selected at construction is the entry of the priority
\* table for the registry's availability flags: realesrgan if available, else
\* ncnn if available, else pil if available, else none.
C1_SelectionFollowsPriority ==
    deployed \in {"main", "simple"} =>
        active_backend = SelectionTable[<<re_available, ncnn_available, pil_available>>]

\* C1 witness: realesrgan is unavailable, ncnn and pil are both available, the
\* selection is ncnn, and a job has been dispatched to it.
C1_Witness ==
    /\ ServedJobEnded
    /\ ~re_available /\ ncnn_available /\ pil_available
    /\ active_backend = "ncnn"
    /\ delivered.strategy = "ncnn"

\* C2: active_backend is "none" or the key of a registry entry that is
\* available, and it is "none" only when realesrgan, ncnn and pil are all
\* unavailable.
C2_ActiveBackendAvailable ==
    deployed \in {"main", "simple"} =>
        /\ active_backend = "none"
           \/ (active_backend \in BackendKeys /\ backends[active_backend].available)
        /\ active_backend = "none" =>
              (~re_available /\ ~ncnn_available /\ ~pil_available)

\* C2 witness: nothing is available, the selection is "none", and a call of
\* upscale() has ended in that state.
C2_Witness ==
    /\ deployed = "simple" /\ delivered.slot # 0
    /\ ~re_available /\ ~ncnn_available /\ ~pil_available
    /\ active_backend = "none"

\* C3: with active_backend "none" every upscale request fails without
\* running a strategy and without file I/O: upscale() raises, no temp input
\* is written, no child process is spawned, no output is produced, and the
\* files are as the caller left them.
C3_NoBackendNoIO ==
    (active_backend = "none" /\ delivered.via \in {"main", "direct"}) =>
        /\ delivered.ret = "raised"
        /\ delivered.http # 200
        /\ delivered.effects = {}
        /\ delivered.out = NoFile
        /\ delivered.left = {InputPath(delivered.slot)}

\* C3 witness: a 100x100 job at scale 2 was submitted with no backend
\* available and upscale() raised "No upscaling backend available".
C3_Witness ==
    /\ active_backend = "none"
    /\ delivered.via \in {"main", "direct"}
    /\ delivered.dim = <<100, 100>> /\ delivered.scale = 2
    /\ delivered.ret = "raised"
    /\ delivered.reason.lit = <<"No upscaling backend available">>

\* C4 (as claimed): a successful inference-strategy job on a w x h input at
\* requested scale s writes an output of exactly (w*s) x (h*s).
C4_InferenceOutputSize ==
    (delivered.strategy \in InferenceStrategies /\ delivered.ret = "True"
        /\ delivered.out # NoFile) =>
        delivered.out = <<delivered.dim[1] * delivered.scale,
                          delivered.dim[2] * delivered.scale>>

\* C5: the accelerator binary is always invoked with -s 4; a post-resize pass
\* is planned iff the requested scale is not 4 and runs only when planned; the
\* resize factor f satisfies 4 * f = requested scale (1/2 for 2, 2 for 8).
C5_AcceleratorScalePlan ==
    /\ \A j \in Slots :
          job[j].pc = "child" =>
              /\ job[j].cmd.s = 4
              /\ job[j].plan.resize_after <=> job[j].scale # 4
              /\ job[j].cmd.o # job[j].out_path => job[j].plan.resize_after
    /\ AcceleratorJobEnded =>
          /\ delivered.cmd.s = 4
          /\ "post_resize" \in delivered.effects => delivered.scale # 4
          /\ (delivered.child.code = 0 /\ delivered.scale # 4) =>
                "post_resize" \in delivered.effects
          /\ "post_resize" \in delivered.effects =>
                /\ delivered.factor.den # 0
                /\ 4 * delivered.factor.num = delivered.scale * delivered.factor.den
                /\ delivered.scale = 2 => 2 * delivered.factor.num = delivered.factor.den
                /\ delivered.scale = 8 => delivered.factor.num = 2 * delivered.factor.den

\* C5 witness: a scale-2 job ran its post-resize pass with factor 1/2 on the
\* output of a -s 4 child and returned True.
C5_Witness ==
    /\ AcceleratorJobEnded
    /\ delivered.scale = 2
    /\ delivered.cmd.s = 4
    /\ "post_resize" \in delivered.effects
    /\ 2 * delivered.factor.num = delivered.factor.den
    /\ delivered.ret = "True"

\* C6 (as claimed): with active backend ncnn in the served orchestrator, an
\* upscale job spawns the accelerator binary and is Succeeded exactly when the
\* child exited with code 0 and the output file exists.
C6_ServedNcnnRunsBinary ==
    (ServedJobEnded /\ delivered.strategy = "ncnn") =>
        /\ "spawn" \in delivered.effects
        /\ delivered.http = 200 <=>
              (delivered.child.code = 0 /\ delivered.out # NoFile)

\* C7: in the accelerator-process strategy, when the child exits with code 0
\* and the file it was told to write does not exist, the job is never
\* Succeeded: upscale returns False or raises.
C7_ExitZeroWithoutFileFails ==
    (AcceleratorJobEnded /\ delivered.child.code = 0 /\ ~delivered.child.wrote) =>
        delivered.ret \in {"False", "raised"}

\* C7 witness: a scale-4 child exited 0 without writing its output and upscale
\* returned False.
C7_Witness ==
    /\ AcceleratorJobEnded
    /\ delivered.child.code = 0 /\ ~delivered.child.wrote
    /\ delivered.scale = 4
    /\ delivered.ret = "False"

\* C8 (as claimed): when the child exits with a non-zero code the job fails,
\* the reason given to the caller contains the captured stderr unmodified, and
\* the post-resize stage is not run.
C8_NonZeroExitCarriesStderr ==
    (AcceleratorJobEnded /\ delivered.child.code # 0) =>
        /\ delivered.ret = "raised"
        /\ Contains(delivered.reason.text, delivered.child.stderr)
        /\ "post_resize" \notin delivered.effects

\* C9 (as claimed): at most one inference call is executing at any moment.
C9_SingleInferenceSlot ==
    Cardinality({j \in Slots : job[j].pc = "inferring"}) <= 1

\* C10 (as claimed): a model variant is constructed at most once per process:
\* no job constructs a variant that an earlier job has already constructed.
C10_VariantConstructedOnce ==
    [][\A j \in Slots :
          ("construct_model" \in effects'[j] /\ "construct_model" \notin effects[j]) =>
              job'[j].variant \notin built]_vars

\* a worker of the inference strategy has been given the job
InferenceQueued(j) == job[j].pc \in {"queued", "inferring"}

\* C11 (as claimed): every inference-strategy job runs on the variant chosen
\* by its own model hint: the anime variant iff the hint contains "anime"
\* case-insensitively, the general-purpose variant otherwise, whatever
\* variants earlier jobs of the process used.
C11_VariantFollowsOwnHint ==
    \A j \in Slots :
        InferenceQueued(j) => job[j].variant = Variant(str(job[j].model))

\* the orchestrator of upscaler_simple runs in the process
Orchestrated == deployed \in {"main", "simple"}

\* C12: when a strategy fails for a job the orchestrator runs no other backend
\* for it and never changes active_backend: in every step active_backend
\* and the registry keep their values, every job in flight is on the backend
\* selected at startup, and a job that failed ended on that backend.
C12_NoFallbackAfterFailure ==
    [][Orchestrated =>
          /\ active_backend' = active_backend
          /\ backends' = backends
          /\ \A j \in Slots :
                job'[j].pc # "idle" => job'[j].strategy = active_backend
          /\ (delivered'.slot # 0 /\ delivered'.ret \in {"False", "raised"}) =>
                /\ delivered'.strategy = active_backend
                /\ delivered'.http # 200
                /\ job'[delivered'.slot].pc = "idle"]_vars

\* C12 witness: a job has just failed on the inference backend although the
\* software-resize backend is available, and another job is in flight on
\* the inference backend.
C12_Witness ==
    /\ Orchestrated
    /\ active_backend = "realesrgan" /\ pil_available
    /\ delivered.slot # 0 /\ delivered.ret = "False"
    /\ delivered.strategy = "realesrgan"
    /\ "inference" \in delivered.effects
    /\ \E j \in Slots : job[j].pc # "idle" /\ job[j].strategy = "realesrgan"

\* str(e) of the exceptions a strategy can raise while it executes
ExceptionTexts == {"process failed", "constructor failed", "no attribute 'lower'"}

\* the pieces of a reason's message
Pieces(reason) == {reason.lit[i] : i \in 1..Len(reason.lit)}

\* C13 (as claimed): an exception raised while a strategy executes ends the
\* job in a failure delivered to the caller whose reason describes the
\* underlying error; the job is never reported as succeeded.
C13_ExceptionGivesDescriptiveFailure ==
    (delivered.slot # 0 /\ "exception" \in delivered.effects) =>
        /\ delivered.ret \in {"False", "raised"}
        /\ delivered.http # 200
        /\ Pieces(delivered.reason) \cap ExceptionTexts # {}

\* the CPU- or I/O-bound work of the inference and software-resize strategies
HeavyWork == {"construct_model", "inference", "write_output"}

\* the coroutine of the job is suspended on a worker
Suspended(j) == job[j].pc \in {"queued", "inferring", "pil_queued"}

\* C14 (as claimed): in the inference and software-resize strategies all
\* heavy work of a job (model construction and weight loading, inference,
\* resize, output write) is done by a worker while the job's coroutine is
\* suspended: no step of the coroutine itself does any of it.
C14_HeavyWorkOnWorker ==
    [][\A j \in Slots :
          (job[j].strategy \in {"realesrgan", "python", "pil"}
              \/ job'[j].strategy \in {"realesrgan", "python", "pil"}) =>
             ((effects'[j] \ effects[j]) \cap HeavyWork # {} => Suspended(j))]_vars

\* the file the child of job j was told to write is an intermediate file
HasIntermediate(j) == job[j].plan.resize_after /\ job[j].cmd.o # job[j].out_path

\* C15 (as claimed): if the caller abandons an accelerator-process job while
\* it awaits the child process, then eventually the child process has ended
\* and the job's intermediate file does not exist.
C15_AbandonedJobIsCleaned ==
    \A j \in Slots :
        (job[j].pc = "abandoned") ~>
            (job[j].pc # "abandoned"
                /\ (HasIntermediate(j) => ~Exists(files, job[j].cmd.o)))

\* C16: a successful software-resize job on a w x h input (w, h >= 1) at
\* scale s in {2, 4, 8} writes an output of exactly (w*s) x (h*s).
C16_PilOutputSize ==
    (delivered.strategy = "pil" /\ delivered.ret = "True") =>
        /\ delivered.dim[1] >= 1 /\ delivered.dim[2] >= 1
        /\ delivered.scale \in {2, 4, 8}
        /\ "write_output" \in delivered.effects
        /\ delivered.out = <<delivered.dim[1] * delivered.scale,
                             delivered.dim[2] * delivered.scale>>

\* C16 witness: a 5x7 input at scale 8 came out of the software-resize
\* strategy as 40x56.
C16_Witness ==
    /\ delivered.strategy = "pil" /\ delivered.ret = "True"
    /\ delivered.dim = <<5, 7>> /\ delivered.scale = 8
    /\ delivered.out = <<40, 56>>

\* C17 (as claimed): after probing, the software-resize entry of the registry
\* is available in every reachable state, whatever the other probes and its
\* own import gave.
C17_PilAlwaysAvailable ==
    Orchestrated => pil_available

\* C18: no per-request operation (an upscale job with any outcome, a memory
\* estimate, check_models, list_models, check_binary, an HTTP endpoint)
\* changes the backend registry or active_backend.
C18_RegistryIsReadOnly ==
    [][Orchestrated => <<backends, active_backend>>' = <<backends, active_backend>>]_vars

\* C18 witness: list_models has just answered in a process that has already
\* run an inference job, with the inference backend still selected.
C18_Witness ==
    /\ Orchestrated
    /\ delivered.via = "list_models"
    /\ delivered.answer.models = {"RealESRGAN_x4plus", "RealESRNet_x4plus"}
    /\ built # {}
    /\ active_backend = "realesrgan" /\ re_available

\* get_memory_usage_estimate has just answered
Estimated == delivered.via = "get_memory_usage_estimate"

\* C19 (as claimed): get_memory_usage_estimate recommends tile size 0 when
\* the total estimate is at or below the ceiling and a non-zero tile size
\* when the total exceeds it.
C19_TileSizeIsStepFunction ==
    Estimated =>
        (delivered.answer.estimate.recommended_tile_size = 0
            <=> delivered.answer.estimate.total_estimated_mb <= Ceiling * 10)

\* C20: for every width and height >= 1 and every scale in {2, 4, 8}, the
\* total estimated with the software-resize backend active is strictly less
\* than the total estimated for the same inputs with the inference backend
\* active.
C20_PilEstimateBelowInference ==
    (Estimated /\ Orchestrated /\ active_backend = "pil"
        /\ delivered.dim[1] >= 1 /\ delivered.dim[2] >= 1
        /\ delivered.scale \in {2, 4, 8}) =>
        delivered.answer.estimate.total_estimated_mb <
            get_memory_usage_estimate("realesrgan", delivered.dim[1], delivered.dim[2],
                                      delivered.scale).total_estimated_mb

\* C20 witness: with the software-resize backend active the estimate for
\* 512 x 512 at scale 4 is 116.8 MB, where the inference backend has 1250.3 MB.
C20_Witness ==
    /\ Estimated /\ Orchestrated /\ active_backend = "pil"
    /\ delivered.dim = <<512, 512>> /\ delivered.scale = 4
    /\ delivered.answer.estimate.total_estimated_mb = 1168
    /\ get_memory_usage_estimate("realesrgan", 512, 512, 4).total_estimated_mb = 12503

-----------------------------------------------------------------------------
(* Model files: check_models() against list_models() *)

\* app/upscaler.py: check_models() when models/ holds model_dir (a missing
\* directory holds no file)
upscaler_check_models(model_dir) ==
    \E file \in model_dir : file.ext = "bin"

\* app/upscaler.py: list_models()
upscaler_list_models(model_dir) ==
    {k \in model_mapping_keys :
        BinFile(model_mapping(k)) \in model_dir /\ ParamFile(model_mapping(k)) \in model_dir}

\* app/upscaler_hybrid.py: check_models()
hybrid_check_models(python, available, model_dir) ==
    IF python THEN available
    ELSE \E file \in model_dir : file.ext = "bin"

\* app/upscaler_hybrid.py: list_models()
hybrid_list_models(python, available, model_dir) ==
    IF python
    THEN (IF available THEN {S_x4plus, S_realesrnet} ELSE {})
    ELSE {k \in model_mapping_keys :
             BinFile(model_mapping(k)) \in model_dir /\ ParamFile(model_mapping(k)) \in model_dir}

\* check_models() and list_models() of the class that is deployed
CheckModelsOf(model_dir) ==
    IF deployed \in {"main", "simple"} THEN check_models(active_backend, model_dir)
    ELSE IF deployed = "upscaler" THEN upscaler_check_models(model_dir)
    ELSE hybrid_check_models(use_python_version, python_available = TRUE, model_dir)

ListModelsOf(model_dir) ==
    IF deployed \in {"main", "simple"} THEN list_models(active_backend, model_dir)
    ELSE IF deployed = "upscaler" THEN upscaler_list_models(model_dir)
    ELSE hybrid_list_models(use_python_version, python_available = TRUE, model_dir)

\* both are asked while models/ holds model_dir
sweep_models ==
    /\ Asking(1)
    /\ \E model_dir \in ModelDirs :
          Answered(1, "models", <<0, 0>>, 0,
                   [NoAnswer EXCEPT
                       !.value = IF CheckModelsOf(model_dir) THEN "True" ELSE "False",
                       !.models = ListModelsOf(model_dir),
                       !.dir = model_dir])

ModelsSpec == Init /\ [][sweep_models]_vars

\* the accelerator backend is the one the deployed class works with
AcceleratorActive ==
    \/ deployed \in {"main", "simple"} /\ active_backend = "ncnn"
    \/ deployed = "upscaler"
    \/ deployed = "hybrid" /\ use_python_version = FALSE

\* C21 (as claimed): for the accelerator backend, check_models() is true only
\* if some model has both its .bin and its .param file in models/, that is,
\* check_models() true implies list_models() non-empty.
C21_CheckModelsImpliesListed ==
    (delivered.via = "models" /\ AcceleratorActive /\ delivered.answer.value = "True") =>
        /\ delivered.answer.models # {}
        /\ \E k \in model_mapping_keys :
              /\ BinFile(model_mapping(k)) \in delivered.answer.dir
              /\ ParamFile(model_mapping(k)) \in delivered.answer.dir

-----------------------------------------------------------------------------
(* src/app.py: the Flask application *)

\* the two file names every request of src/app.py works with
FlaskInput == <<"input.png">>
FlaskOutput == <<"output.png">>
FlaskPaths == {FlaskInput, FlaskOutput}

\* the state after the module is loaded: model and RealESRGANer are built,
\* no request is in flight, nothing is written yet
FlaskInit ==
    /\ deployed = "flask"
    /\ request = Absent
    /\ backends = Absent
    /\ active_backend = Absent
    /\ use_python_version = Absent
    /\ python_available = Absent
    /\ python_upscaler = Absent
    /\ job = [j \in Slots |-> IdleJob]
    /\ files = [p \in FlaskPaths |-> NoFile]
    /\ effects = [j \in Slots |-> {}]
    /\ built = {"RealESRGAN_x4plus"}
    /\ delivered = NoResult

FlaskFrame ==
    UNCHANGED <<deployed, request, backends, active_backend, use_python_version,
                python_available, python_upscaler, built>>

\* another request stands between its output.save and its send_file
OutputInUse(j) == \E k \in Slots \ {j} : job[k].pc = "send"

\* upscale(), up to img.save('input.png'); a request without an image part
\* is answered 400
flask_upscale(j) ==
    /\ job[j].pc = "idle"
    /\ \E has_image \in BOOLEAN, dim \in DimPairs :
          IF ~has_image
          THEN /\ delivered' = Result(j, [IdleJob EXCEPT !.via = "flask"], "", 400,
                                      Reason(<<"No image uploaded">>, <<>>), NoFile,
                                      NoFactor, {}, {})
               /\ UNCHANGED <<job, files, effects>>
          ELSE /\ files' = [files EXCEPT ![FlaskInput] = dim]
               /\ job' = [job EXCEPT ![j] = [IdleJob EXCEPT !.pc = "enhance",
                                                !.via = "flask", !.scale = NativeScale,
                                                !.dim = dim, !.out_path = FlaskOutput]]
               /\ effects' = [effects EXCEPT ![j] = {"write_input"}]
               /\ delivered' = NoResult
    /\ FlaskFrame

\* output, _ = upscaler.enhance(img); output.save('output.png')
flask_enhance(j) ==
    /\ job[j].pc = "enhance"
    /\ files' = [files EXCEPT ![FlaskOutput] = enhance(job[j].dim, NativeScale, 1).dim]
    /\ job' = [job EXCEPT ![j].pc = "send"]
    /\ effects' = [effects EXCEPT ![j] =
                      @ \cup {"write_output"}
                        \cup (IF OutputInUse(j) THEN {"overwrote_other"} ELSE {})]
    /\ delivered' = NoResult
    /\ FlaskFrame

\* send_file('output.png'): the response is what the file holds now
flask_send_file(j) ==
    /\ job[j].pc = "send"
    /\ delivered' = Result(j, job[j], "True", 200, NoReason, files[FlaskOutput],
                           NoFactor, {p \in FlaskPaths : Exists(files, p)}, effects[j])
    /\ job' = [job EXCEPT ![j] = IdleJob]
    /\ effects' = [effects EXCEPT ![j] = {}]
    /\ UNCHANGED files
    /\ FlaskFrame

FlaskNext ==
    \E j \in Slots :
        \/ flask_upscale(j)
        \/ flask_enhance(j)
        \/ flask_send_file(j)

FlaskSpec == FlaskInit /\ [][FlaskNext]_vars

\* C22 (as claimed): jobs are independent under concurrency: the response of
\* every request is the upscaled result of its own input image, and no
\* request overwrites a file that another request in flight uses.
C22_JobsIndependent ==
    (delivered.via = "flask" /\ delivered.http = 200) =>
        /\ delivered.out = <<delivered.dim[1] * NativeScale, delivered.dim[2] * NativeScale>>
        /\ "overwrote_other" \notin delivered.effects

-----------------------------------------------------------------------------
(* Temporary files *)

\* _process_upscale has finished and has answered the request
ProcessUpscaleFinished == delivered.via = "main"

\* C23: after _process_upscale finishes with any outcome (success, upscale
\* returning False, or an exception), neither the job's input_path nor its
\* output_path exists, provided the removals themselves do not fail.
C23_TempFilesRemoved ==
    (ProcessUpscaleFinished /\ "remove_failed" \notin delivered.effects) =>
        delivered.left = {}

\* C23 witness: a job that wrote its input and its output and was answered
\* 200 has left no file behind.
C23_Witness ==
    /\ ProcessUpscaleFinished /\ "remove_failed" \notin delivered.effects
    /\ delivered.http = 200 /\ delivered.out # NoFile
    /\ "write_input" \in delivered.effects
    /\ delivered.left = {}

-----------------------------------------------------------------------------
(* Validation at the endpoints *)

\* an endpoint of main.py has answered an upscale request
EndpointAnswered == delivered.via \in {"main", "upscale", "upscale-base64"}

\* C24: through both endpoints the orchestrator's upscale is never invoked
\* with a scale outside {2, 4, 8}: any other scale is rejected with a 400
\* error before a temp file is written or a backend is called.
C24_ScaleValidatedAtEndpoints ==
    deployed = "main" =>
        /\ \A j \in Slots : job[j].pc # "idle" => job[j].scale \in {2, 4, 8}
        /\ ProcessUpscaleFinished => delivered.scale \in {2, 4, 8}
        /\ (EndpointAnswered /\ delivered.scale \notin {2, 4, 8}) =>
              /\ delivered.http = 400
              /\ delivered.reason = Reason(<<"Scale must be 2, 4, or 8">>, <<>>)
              /\ delivered.ret = "" /\ delivered.strategy = ""
              /\ delivered.effects = {} /\ delivered.left = {}
        /\ request.scale \notin {2, 4, 8} =>
              /\ \A p \in SlotPaths(1) : ~Exists(files, p)
              /\ effects[1] = {}

\* C24 witness: POST /upscale-base64 with scale 3 has been answered 400 and
\* nothing was written.
C24_Witness ==
    /\ deployed = "main" /\ request.scale = 3
    /\ delivered.via = "upscale-base64" /\ delivered.slot = 1 /\ delivered.scale = 3
    /\ delivered.http = 400
    /\ delivered.reason = Reason(<<"Scale must be 2, 4, or 8">>, <<>>)
    /\ delivered.effects = {} /\ delivered.ret = ""
    /\ \A p \in SlotPaths(1) : ~Exists(files, p)

-----------------------------------------------------------------------------
(* The intermediate file of the accelerator-process strategy *)

\* a job with a post-resize pass has ended after its child exited with code 0
PostResizeJobEnded ==
    /\ AcceleratorJobEnded
    /\ delivered.child.code = 0
    /\ delivered.scale \in {2, 8}

\* C25 (as claimed): in the accelerator-process strategy with a post-resize
\* pass, whenever the job has reached a terminal state after the child exited
\* with code 0, the intermediate '_temp' file no longer exists, including
\* when the post-resize stage itself fails.
C25_IntermediateAlwaysDeleted ==
    PostResizeJobEnded => delivered.cmd.o \notin delivered.left

\* the post-resize stage of the ended job has written the final output, and
\* the output exists when the caller has its answer
PostResizeSucceeded ==
    /\ PostResizeJobEnded
    /\ {"post_resize", "write_output"} \subseteq delivered.effects
    /\ \E p \in delivered.left : p \notin {delivered.cmd.i, delivered.cmd.o}

\* C26 (as claimed): in the accelerator-process strategy a failure to delete
\* the intermediate file after a successful post-resize is not propagated:
\* the job ends Succeeded when the final output file exists.
C26_DeleteFailureNotPropagated ==
    PostResizeSucceeded => delivered.ret = "True"

-----------------------------------------------------------------------------
(* The passes of the software-resize strategy *)

\* a job of the software-resize strategy has ended with its output written
PilJobSucceeded ==
    /\ Orchestrated
    /\ delivered.strategy = "pil" /\ delivered.ret = "True"
    /\ delivered.out # NoFile

Log2(scale) == CASE scale = 2 -> 1 [] scale = 4 -> 2 [] scale = 8 -> 3 [] OTHER -> -1

RECURSIVE Accumulated(_)
\* the product of the step scales of the resizes in ops, as num/den
Accumulated(ops) ==
    IF ops = <<>> THEN [num |-> 1, den |-> 1]
    ELSE LET rest == Accumulated(Tail(ops))
         IN  IF Head(ops).op = "resize"
             THEN [num |-> Head(ops).num * rest.num, den |-> Head(ops).den * rest.den]
             ELSE rest

\* C27: for every scale in {2, 4, 8} the multi-pass loop of the software
\* resize ends after exactly log2(scale) passes (1, 2, 3); every pass
\* multiplies the current dimensions by at most 2 and is immediately followed
\* by one sharpening step; on loop exit the accumulated scale equals the
\* requested scale.
C27_PilLoopPasses ==
    (PilJobSucceeded /\ delivered.scale \in {2, 4, 8}) =>
        LET ops == PilPasses(delivered.dim, 1, delivered.scale)
            passes == {i \in 1..Len(ops) : ops[i].op = "resize"}
        IN  /\ Cardinality(passes) = Log2(delivered.scale)
            /\ Len(ops) = 2 * Cardinality(passes)
            /\ \A i \in passes :
                  /\ ops[i].num <= 2 * ops[i].den
                  /\ i + 1 <= Len(ops) /\ ops[i + 1].op = "filter"
            /\ Accumulated(ops).num = delivered.scale * Accumulated(ops).den
            /\ delivered.out = PilLoop(delivered.dim, 1, delivered.scale)

\* C27 witness: a 5x7 image at scale 8 went through three passes of 2x, each
\* followed by the filter, and came out 40x56.
C27_Witness ==
    /\ PilJobSucceeded /\ delivered.scale = 8 /\ delivered.dim = <<5, 7>>
    /\ PilPasses(<<5, 7>>, 1, 8) =
          <<[op |-> "resize", num |-> 2, den |-> 1], [op |-> "filter", num |-> 0, den |-> 0],
            [op |-> "resize", num |-> 4, den |-> 2], [op |-> "filter", num |-> 0, den |-> 0],
            [op |-> "resize", num |-> 8, den |-> 4], [op |-> "filter", num |-> 0, den |-> 0]>>
    /\ delivered.out = <<40, 56>>

-----------------------------------------------------------------------------
(* What precedes the child process *)

\* the binary and both files of the resolved model were there when the job
\* with the effects eff looked
SawAll(eff) == {"saw_binary", "saw_bin", "saw_param"} \subseteq eff

\* C28: the accelerator-process strategy never spawns the child process
\* unless the binary exists and is executable and both the .bin and the
\* .param file of the resolved model exist (an unknown model hint resolving
\* to 'realesrgan-x4plus'); otherwise the job fails before any process is
\* created.
C28_SpawnOnlyAfterChecks ==
    /\ \A j \in Slots :
          "spawn" \in effects[j] =>
              /\ SawAll(effects[j])
              /\ job[j].cmd.n =
                    model_mapping(IF ~job[j].model.isNone
                                     /\ job[j].model.text \in model_mapping_keys
                                  THEN job[j].model.text ELSE S_x4plus)
    /\ (delivered.strategy = "ncnn" /\ delivered.via = "direct"
          /\ deployed \in {"upscaler", "hybrid"}) =>
          /\ "spawn" \in delivered.effects => SawAll(delivered.effects)
          /\ ~SawAll(delivered.effects) =>
                /\ delivered.ret = "raised"
                /\ delivered.child = NoChild
                /\ delivered.reason.lit[1] \in
                      {"Real-ESRGAN binary not found or not executable",
                       "Model files not found for "}

\* C28 witness: a job with a model hint that is no key of the mapping found
\* realesrgan-x4plus.bin without its .param file and failed without a child.
C28_Witness ==
    /\ deployed = "upscaler" /\ delivered.strategy = "ncnn"
    /\ ~delivered.model.isNone /\ delivered.model.text \notin model_mapping_keys
    /\ delivered.effects = {"saw_binary", "saw_bin"}
    /\ delivered.ret = "raised" /\ delivered.child = NoChild
    /\ delivered.reason.lit[1] = "Model files not found for "

\* C29 (as claimed): in the accelerator-process strategy with requested
\* scale 2 or 8 the intermediate path differs from output_path whatever the
\* output_path is, so a job whose child exits 0 and whose post-resize
\* succeeds leaves output_path existing and returns True.
C29_IntermediateDiffersFromOutput ==
    (PostResizeJobEnded /\ delivered.child.wrote /\ delivered.ret # "raised") =>
        /\ \A shape \in OutShapes : delivered.cmd.o # OutputPath(delivered.slot, shape)
        /\ delivered.ret = "True"
        /\ \E p \in delivered.left : p \notin {delivered.cmd.i, delivered.cmd.o}

\* POST /upscale-base64 has refused the payload of more than 2 MB of the
\* observed client at its size test
LargeBase64Refused ==
    /\ deployed = "main" /\ request.payload.large
    /\ delivered.via = "upscale-base64" /\ delivered.slot = 1
    /\ delivered.reason.lit # <<>>
    /\ delivered.reason.lit[1] = "Invalid base64 image data: "

\* C30 (as claimed): on /upscale-base64 a payload that decodes to more than
\* 2 MB is rejected with HTTP status 413, and that status reaches the client
\* unchanged rather than being converted to another error status.
C30_Base64TooLargeIs413 ==
    /\ LargeBase64Refused => delivered.http = 413
    /\ (deployed = "main" /\ request.payload.large /\ delivered.via = "upscale-base64"
          /\ delivered.slot = 1 /\ delivered.scale \in {2, 4, 8}
          /\ delivered.reason.lit # <<"image_base64 is required">>) =>
          LargeBase64Refused

====
